---------------------------- MODULE Spec2Model ----------------------------
(***************************************************************************)
(* The music composition pipeline of music_compositor_agent_langgraph:     *)
(* a LangGraph StateGraph over MusicState with four generative stages      *)
(* (melody_generator, harmony_creator, rhythm_analyzer, style_adapter)     *)
(* and the deterministic encoder midi_converter, run by app.invoke.        *)
(*                                                                         *)
(* Texts whose characters the program inspects (musician_input) are named  *)
(* by a string and spelled out by Chars; a scale or chord name is the      *)
(* sequence of its blank-separated words, so that str.split() and the      *)
(* re-joining of the first two words are computed, not assumed.            *)
(***************************************************************************)
EXTENDS Integers, Sequences, FiniteSets, TLC

(* ------------------------------ bounds -------------------------------- *)

\* The process-global random generator starts in one of the states 0..MaxSeed.
MaxSeed == 240

(* --------------------------- small helpers ---------------------------- *)

None == "None"

Range(f) == {f[x] : x \in DOMAIN f}

IsPrefix(s, t) ==
    /\ Len(s) <= Len(t)
    /\ \A i \in 1..Len(s) : s[i] = t[i]

\* d1 | d2 of two dicts: the keys of d2 win.
Merge(d1, d2) ==
    [k \in (DOMAIN d1) \cup (DOMAIN d2) |-> IF k \in DOMAIN d2 THEN d2[k] ELSE d1[k]]

Restrict(d, keys) == [k \in (DOMAIN d) \cap keys |-> d[k]]

EmptyDict == [k \in {} |-> None]

(* ------------------------------ MusicState ---------------------------- *)

\* The keys of the TypedDict: the channels of the compiled graph.
MusicState ==
    {"musician_input", "melody", "harmony", "rhythm", "style", "composition", "midi_file"}

(* ------------------------------ the graph ----------------------------- *)

END == "__end__"

\* workflow.add_node, in the order of the calls.
Nodes ==
    <<"melody_generator", "harmony_creator", "rhythm_analyzer", "style_adapter", "midi_converter">>

NodeSet == Range(Nodes)

GenerativeNodes == {"melody_generator", "harmony_creator", "rhythm_analyzer", "style_adapter"}

\* workflow.set_entry_point
EntryPoint == "melody_generator"

\* Mutant: the edge out of melody_generator leads past harmony_creator.
Edges_skipping_harmony ==
    { <<"melody_generator", "rhythm_analyzer">>,
      <<"rhythm_analyzer", "style_adapter">>,
      <<"style_adapter", "midi_converter">>,
      <<"midi_converter", END>> }

\* Mutant: style_adapter is wired to END, midi_converter to nothing.
Edges_ending_early ==
    { <<"melody_generator", "harmony_creator">>,
      <<"harmony_creator", "rhythm_analyzer">>,
      <<"rhythm_analyzer", "style_adapter">>,
      <<"style_adapter", END>> }

\* workflow.add_edge
Edges ==
    { <<"melody_generator", "harmony_creator">>,
      <<"harmony_creator", "rhythm_analyzer">>,
      <<"rhythm_analyzer", "style_adapter">>,
      <<"style_adapter", "midi_converter">>,
      <<"midi_converter", END>> }

Successors(n) == {e[2] : e \in {x \in Edges : x[1] = n}} \ {END}

\* workflow.compile() is given no retry policy: a task that raises is run
\* again this many times.
RetryBound == 0

(* --------------------------- stage contracts --------------------------- *)

\* The state keys a stage body subscripts, in the order it evaluates them.
Reads(n) ==
    CASE n = "melody_generator" -> <<"musician_input">>
      [] n = "harmony_creator"  -> <<"melody">>
      [] n = "rhythm_analyzer"  -> <<"melody", "harmony">>
      [] n = "style_adapter"    -> <<"style", "melody", "harmony", "rhythm">>
      [] n = "midi_converter"   -> <<"composition", "musician_input">>

\* Mutant: harmony_creator returns its text under the key "melody".
Writes_harmony_as_melody(n) ==
    CASE n = "melody_generator" -> "melody"
      [] n = "harmony_creator"  -> "melody"
      [] n = "rhythm_analyzer"  -> "rhythm"
      [] n = "style_adapter"    -> "composition"
      [] n = "midi_converter"   -> "midi_file"

\* The key of the partial update a stage returns.
Writes(n) ==
    CASE n = "melody_generator" -> "melody"
      [] n = "harmony_creator"  -> "harmony"
      [] n = "rhythm_analyzer"  -> "rhythm"
      [] n = "style_adapter"    -> "composition"
      [] n = "midi_converter"   -> "midi_file"

\* The first key of Reads(n) that st lacks (the key of the KeyError), or None.
FirstMissing(n, st) ==
    LET miss == {i \in 1..Len(Reads(n)) : Reads(n)[i] \notin DOMAIN st}
    IN  IF miss = {} THEN None
        ELSE Reads(n)[CHOOSE i \in miss : \A j \in miss : i <= j]

\* Mutant: rhythm_analyzer and style_adapter are given the harmony text in
\* the place of the melody.
Request_with_harmony_for_melody(n, st) ==
    CASE n = "melody_generator" -> [input |-> st["musician_input"]]
      [] n = "harmony_creator"  -> [melody |-> st["melody"]]
      [] n = "rhythm_analyzer"  -> [melody |-> st["harmony"], harmony |-> st["harmony"]]
      [] n = "style_adapter"    ->
            [style |-> st["style"], melody |-> st["harmony"],
             harmony |-> st["harmony"], rhythm |-> st["rhythm"]]

\* The template arguments of the stage's chain.invoke.
Request(n, st) ==
    CASE n = "melody_generator" -> [input |-> st["musician_input"]]
      [] n = "harmony_creator"  -> [melody |-> st["melody"]]
      [] n = "rhythm_analyzer"  -> [melody |-> st["melody"], harmony |-> st["harmony"]]
      [] n = "style_adapter"    ->
            [style |-> st["style"], melody |-> st["melody"],
             harmony |-> st["harmony"], rhythm |-> st["rhythm"]]


(* ------------------------------- texts --------------------------------- *)

\* The musician_input texts of the model; the first is the notebook's own.
MusicianInputs ==
    {"Create a happy piano piece in C major",
     "A sad waltz in C MINOR",
     "Create a happy piece",
     "from Minor to major"}

\* The characters of a text.
Chars(t) ==
    CASE t = "Create a happy piano piece in C major" ->
            <<"C", "r", "e", "a", "t", "e", " ", "a", " ", "h", "a", "p", "p", "y", " ", "p", "i", "a", "n", "o", " ", "p", "i", "e", "c", "e", " ", "i", "n", " ", "C", " ", "m", "a", "j", "o", "r">>
      [] t = "A sad waltz in C MINOR" ->
            <<"A", " ", "s", "a", "d", " ", "w", "a", "l", "t", "z", " ", "i", "n", " ", "C", " ", "M", "I", "N", "O", "R">>
      [] t = "Create a happy piece" ->
            <<"C", "r", "e", "a", "t", "e", " ", "a", " ", "h", "a", "p", "p", "y", " ", "p", "i", "e", "c", "e">>
      [] t = "from Minor to major" ->
            <<"f", "r", "o", "m", " ", "M", "i", "n", "o", "r", " ", "t", "o", " ", "m", "a", "j", "o", "r">>

\* The upper-case letters and their lower-case forms.
LowerOf ==
    [c \in {"A", "B", "C", "D", "E", "F", "G", "H", "I", "J", "K", "L", "M",
            "N", "O", "P", "Q", "R", "S", "T", "U", "V", "W", "X", "Y", "Z"} |->
        CASE c = "A" -> "a" [] c = "B" -> "b" [] c = "C" -> "c" [] c = "D" -> "d"
          [] c = "E" -> "e" [] c = "F" -> "f" [] c = "G" -> "g" [] c = "H" -> "h"
          [] c = "I" -> "i" [] c = "J" -> "j" [] c = "K" -> "k" [] c = "L" -> "l"
          [] c = "M" -> "m" [] c = "N" -> "n" [] c = "O" -> "o" [] c = "P" -> "p"
          [] c = "Q" -> "q" [] c = "R" -> "r" [] c = "S" -> "s" [] c = "T" -> "t"
          [] c = "U" -> "u" [] c = "V" -> "v" [] c = "W" -> "w" [] c = "X" -> "x"
          [] c = "Y" -> "y" [] c = "Z" -> "z"]

\* str.lower(), on the characters.
lower(cs) ==
    [i \in 1..Len(cs) |-> IF cs[i] \in DOMAIN LowerOf THEN LowerOf[cs[i]] ELSE cs[i]]

\* needle in hay, on the characters.
Contains(hay, needle) ==
    \E off \in 0..(Len(hay) - Len(needle)) :
        \A i \in 1..Len(needle) : hay[off + i] = needle[i]

Word_minor == <<"m", "i", "n", "o", "r">>

Word_major == <<"m", "a", "j", "o", "r">>

\* What the generative service can answer.
LLMResponses == {"text_a", "text_b"}

\* The ways chain.invoke can raise.
ExternalErrors == {"TransientExternalError", "PermanentExternalError"}

(* --------------------------- catalog tables ---------------------------- *)

\* Mutant: the scale table has lost its last entry.
scale_keys_without_diminished ==
    << <<"C", "major">>, <<"C", "minor">>, <<"C", "harmonic", "minor">>,
       <<"C", "melodic", "minor">>, <<"C", "dorian">>, <<"C", "phrygian">>,
       <<"C", "lydian">>, <<"C", "mixolydian">>, <<"C", "locrian">>,
       <<"C", "whole", "tone">> >>

\* list(scales.keys()): the names in insertion order, each the sequence of
\* its words.
scale_keys ==
    << <<"C", "major">>, <<"C", "minor">>, <<"C", "harmonic", "minor">>,
       <<"C", "melodic", "minor">>, <<"C", "dorian">>, <<"C", "phrygian">>,
       <<"C", "lydian">>, <<"C", "mixolydian">>, <<"C", "locrian">>,
       <<"C", "whole", "tone">>, <<"C", "diminished">> >>

scales(name) ==
    CASE name = <<"C", "major">>             -> <<"C", "D", "E", "F", "G", "A", "B">>
      [] name = <<"C", "minor">>             -> <<"C", "D", "Eb", "F", "G", "Ab", "Bb">>
      [] name = <<"C", "harmonic", "minor">> -> <<"C", "D", "Eb", "F", "G", "Ab", "B">>
      [] name = <<"C", "melodic", "minor">>  -> <<"C", "D", "Eb", "F", "G", "A", "B">>
      [] name = <<"C", "dorian">>            -> <<"C", "D", "Eb", "F", "G", "A", "Bb">>
      [] name = <<"C", "phrygian">>          -> <<"C", "Db", "Eb", "F", "G", "Ab", "Bb">>
      [] name = <<"C", "lydian">>            -> <<"C", "D", "E", "F#", "G", "A", "B">>
      [] name = <<"C", "mixolydian">>        -> <<"C", "D", "E", "F", "G", "A", "Bb">>
      [] name = <<"C", "locrian">>           -> <<"C", "Db", "Eb", "F", "Gb", "Ab", "Bb">>
      [] name = <<"C", "whole", "tone">>     -> <<"C", "D", "E", "F#", "G#", "A#">>
      [] name = <<"C", "diminished">>        -> <<"C", "D", "Eb", "F", "Gb", "Ab", "A", "B">>

\* list(chords.keys())
chord_keys ==
    << <<"C", "major">>, <<"C", "minor">>, <<"C", "diminished">>, <<"C", "augmented">>,
       <<"C", "dominant", "7th">>, <<"C", "major", "7th">>, <<"C", "minor", "7th">>,
       <<"C", "half-diminished", "7th">>, <<"C", "fully", "diminished", "7th">> >>

\* A pitch string such as 'Eb4' is the pair of its pitch class and octave.
chords(name) ==
    CASE name = <<"C", "major">>      -> << <<"C", 4>>, <<"E", 4>>, <<"G", 4>> >>
      [] name = <<"C", "minor">>      -> << <<"C", 4>>, <<"Eb", 4>>, <<"G", 4>> >>
      [] name = <<"C", "diminished">> -> << <<"C", 4>>, <<"Eb", 4>>, <<"Gb", 4>> >>
      [] name = <<"C", "augmented">>  -> << <<"C", 4>>, <<"E", 4>>, <<"G#", 4>> >>
      [] name = <<"C", "dominant", "7th">> ->
            << <<"C", 4>>, <<"E", 4>>, <<"G", 4>>, <<"Bb", 4>> >>
      [] name = <<"C", "major", "7th">> ->
            << <<"C", 4>>, <<"E", 4>>, <<"G", 4>>, <<"B", 4>> >>
      [] name = <<"C", "minor", "7th">> ->
            << <<"C", 4>>, <<"Eb", 4>>, <<"G", 4>>, <<"Bb", 4>> >>
      [] name = <<"C", "half-diminished", "7th">> ->
            << <<"C", 4>>, <<"Eb", 4>>, <<"Gb", 4>>, <<"Bb", 4>> >>
      [] name = <<"C", "fully", "diminished", "7th">> ->
            << <<"C", 4>>, <<"Eb", 4>>, <<"Gb", 4>>, <<"A", 4>> >>

(* ------------------------- the random generator ------------------------ *)

\* The module-level generator of random: a deterministic sequence from a
\* state that nothing in the notebook seeds.
rng_next(g) == (49 * g + 2) % 241

RECURSIVE rng_after(_, _)
\* The generator's state after k draws.
rng_after(g, k) == IF k = 0 THEN g ELSE rng_after(rng_next(g), k - 1)

\* random.choice(seq) with the generator in state g.
random_choice(seq, g) == seq[(g % Len(seq)) + 1]

(* ----------------------------- the encoder ----------------------------- *)

\* The beats the two loops produce, before the final note and chord.
LoopBeats == 7

\* MetronomeMark(number=60)
TempoBPM == 60

\* music21.note.Note(pitch + '4') with quarterLength = 1
Note(pitch_class) == [pitch |-> <<pitch_class, 4>>, quarterLength |-> 1]

\* music21.chord.Chord(pitches) with quarterLength = 1
Chord(pitches) == [pitches |-> pitches, quarterLength |-> 1]

\* Mutant: the melody is drawn from the pitch classes of C major whatever
\* scale was selected.
create_melody_from_C_major(scale_name, duration, g) ==
    [i \in 1..duration |->
        Note(random_choice(scales(<<"C", "major">>), rng_after(g, i - 1)))]

\* create_melody(scale_name, duration), the generator being in state g.
create_melody(scale_name, duration, g) ==
    [i \in 1..duration |-> Note(random_choice(scales(scale_name), rng_after(g, i - 1)))]

\* Mutant: the chords are drawn among the first four entries, the triads.
create_chord_progression_of_triads(duration, g) ==
    [i \in 1..duration |->
        Chord(chords(random_choice(SubSeq(chord_keys, 1, 4), rng_after(g, i - 1))))]

\* create_chord_progression(duration), the generator being in state g.
create_chord_progression(duration, g) ==
    [i \in 1..duration |-> Chord(chords(random_choice(chord_keys, rng_after(g, i - 1))))]

\* For each text t of the model: whether 'minor' and whether 'major' is in
\* t.lower() (tabulated once, the texts being fixed).
keyword_in ==
    [t \in MusicianInputs |->
        [minor |-> Contains(lower(Chars(t)), Word_minor),
         major |-> Contains(lower(Chars(t)), Word_major)]]

\* Whether the scale name is drawn at random.
scale_is_random(musician_input) ==
    /\ ~keyword_in[musician_input].minor
    /\ ~keyword_in[musician_input].major

\* Mutant: the keyword minor selects the harmonic minor scale.
select_scale_harmonic_minor(musician_input, g) ==
    IF keyword_in[musician_input].minor THEN <<"C", "harmonic", "minor">>
    ELSE IF keyword_in[musician_input].major THEN <<"C", "major">>
    ELSE random_choice(scale_keys, g)

\* Mutant: 'major' is tested before 'minor'.
select_scale_major_first(musician_input, g) ==
    IF keyword_in[musician_input].major THEN <<"C", "major">>
    ELSE IF keyword_in[musician_input].minor THEN <<"C", "minor">>
    ELSE random_choice(scale_keys, g)

\* The scale selection on the lower-cased musician_input.
select_scale(musician_input, g) ==
    IF keyword_in[musician_input].minor THEN <<"C", "minor">>
    ELSE IF keyword_in[musician_input].major THEN <<"C", "major">>
    ELSE random_choice(scale_keys, g)

\* Mutant: the key is the first and the last word of the scale's name.
final_chord_key_first_and_last(scale_name) ==
    <<scale_name[1], scale_name[Len(scale_name)]>>

\* scale_name.split()[0] + ' ' + scale_name.split()[1]
final_chord_key(scale_name) == <<scale_name[1], scale_name[2]>>

\* Mutant: the final note is the scale's last pitch class.
final_note_on_last_degree(scale_name) ==
    Note(scales(scale_name)[Len(scales(scale_name))])

\* The note appended after the loop: the scale's first pitch class.
final_note(scale_name) == Note(scales(scale_name)[1])

\* The generator's state after the scale selection.
rng_after_scale(musician_input, g) ==
    IF scale_is_random(musician_input) THEN rng_next(g) ELSE g

\* The melody Part once the final note is appended.
melody_of(scale_name, g) ==
    Append(create_melody(scale_name, LoopBeats, g), final_note(scale_name))

\* Whether chords[...] finds the key of the final chord.
final_chord_found(scale_name) ==
    \E i \in 1..Len(chord_keys) : chord_keys[i] = final_chord_key(scale_name)

\* The harmony Part once the final chord is appended.
harmony_of(scale_name, loop_chords) ==
    Append(loop_chords, Chord(chords(final_chord_key(scale_name))))

\* Mutant: the text annotation is left out of the score.
Score_without_annotation(composition, melody, harmony) ==
    << [kind |-> "Part", events |-> melody],
       [kind |-> "Part", events |-> harmony],
       [kind |-> "MetronomeMark", number |-> TempoBPM] >>

\* The Score: the elements in the order the code adds them.
Score(composition, melody, harmony) ==
    << [kind |-> "TextExpression", content |-> composition],
       [kind |-> "Part", events |-> melody],
       [kind |-> "Part", events |-> harmony],
       [kind |-> "MetronomeMark", number |-> TempoBPM] >>

\* The names tempfile.NamedTemporaryFile can choose from.
TempNames == {"tmp_a.mid", "tmp_b.mid"}

(* ------------------------------- inputs -------------------------------- *)

\* The dicts a caller gives to app.invoke: any of musician_input, style,
\* scale, duration and tempo, present or not.
\* Either no entry for key k, or the entry k: v for a value v of vs.
Optional(k, vs) == {EmptyDict} \cup {[x \in {k} |-> v] : v \in vs}

InputDicts ==
    { Merge(mi, Merge(st, Merge(sc, Merge(du, te)))) :
        mi \in Optional("musician_input", MusicianInputs),
        st \in Optional("style", {"Romantic era"}),
        sc \in Optional("scale", {"C dorian"}),
        du \in Optional("duration", {4}),
        te \in Optional("tempo", {90}) }

(* ------------------------------- state --------------------------------- *)

VARIABLES
    inputs,        \* the dict the caller passes to app.invoke
    status,        \* "new", "running", "completed" or "failed"
    state,         \* the graph's state: the channels that hold a value
    phase,         \* per node: "idle", "ready", "calling" or "done"
    attempts,      \* per node: how many times its body was entered
    log,           \* the node starts and ends, in order
    calls,         \* the chain.invoke requests issued, in order
    raised,        \* the exceptions app.invoke raised to the caller
    returned,      \* the values app.invoke returned to the caller
    rng,           \* <<g>>: the generator's state once it is known
    scale_name,    \* midi_converter's local scale_name when it was left
    melody_part,   \* midi_converter's local melody when it was left
    harmony_part,  \* midi_converter's local harmony when it was left
    rng_at_entry,  \* <<g>>: the state the generator was known to be in when
                   \* midi_converter drew
    files,         \* the temporary directory: name -> content
    played,        \* the paths play_midi has played, in order
    other          \* <<c>>: the context c of a second, suspended app.invoke

vars ==
    <<inputs, status, state, phase, attempts, log, calls, raised, returned,
      rng, scale_name, melody_part, harmony_part, rng_at_entry, files,
      played, other>>

encoder_vars == <<rng, scale_name, melody_part, harmony_part, rng_at_entry, files>>

Init ==
    /\ inputs \in InputDicts
    /\ status = "new"
    /\ state = EmptyDict
    /\ phase = [n \in NodeSet |-> "idle"]
    /\ attempts = [n \in NodeSet |-> 0]
    /\ log = <<>>
    /\ calls = <<>>
    /\ raised = <<>>
    /\ returned = <<>>
    /\ rng = <<>>
    /\ scale_name = <<>>
    /\ melody_part = <<>>
    /\ harmony_part = <<>>
    /\ rng_at_entry = <<>>
    /\ files = EmptyDict
    /\ played = <<>>
    /\ other = <<>>

(* ------------------------------ the engine ----------------------------- *)

\* app.invoke(inputs): the input keys that are channels are written, and
\* the entry point is scheduled.
Invoke ==
    /\ status = "new"
    /\ status' = "running"
    /\ state' = Restrict(inputs, MusicState)
    /\ phase' = [phase EXCEPT ![EntryPoint] = "ready"]
    /\ UNCHANGED <<inputs, played, other, attempts, log, calls, raised, returned,
                   encoder_vars>>

\* Mutant: the failing run hands the state it had reached to the caller.
Raise_returning_partial_state(n, type, key) ==
    /\ raised' = Append(raised, [type |-> type, key |-> key, task |-> n])
    /\ status' = "failed"
    /\ phase' = [phase EXCEPT ![n] = "done"]
    /\ returned' = Append(returned, state)
    /\ UNCHANGED <<state, other>>

\* Mutant: the error is recorded and the run goes on with the next node.
Raise_and_continue(n, type, key) ==
    /\ raised' = Append(raised, [type |-> type, key |-> key, task |-> n])
    /\ phase' = [m \in NodeSet |->
                    IF m \in Successors(n) THEN "ready"
                    ELSE IF m = n THEN "done" ELSE phase[m]]
    /\ UNCHANGED <<status, state, returned, other>>

\* The exception a task raised leaves app.invoke: nothing is returned.
Raise(n, type, key) ==
    /\ raised' = Append(raised, [type |-> type, key |-> key, task |-> n])
    /\ status' = "failed"
    /\ phase' = [phase EXCEPT ![n] = "done"]
    /\ UNCHANGED <<state, returned, other>>

\* Mutant: the channels are shared: a task's writes reach the state of
\* every invocation in the process.
Commit_into_shared_state(n, update) ==
    /\ state' = Merge(state, update)
    /\ other' = [i \in DOMAIN other |->
                    [other[i] EXCEPT !.state = Merge(@, update)]]
    /\ phase' = [m \in NodeSet |->
                    IF m \in Successors(n) THEN "ready"
                    ELSE IF m = n THEN "done" ELSE phase[m]]
    /\ UNCHANGED <<status, raised, returned>>

\* A task's writes are applied and the targets of its edges are scheduled.
Commit(n, update) ==
    /\ state' = Merge(state, update)
    /\ phase' = [m \in NodeSet |->
                    IF m \in Successors(n) THEN "ready"
                    ELSE IF m = n THEN "done" ELSE phase[m]]
    /\ UNCHANGED <<status, raised, returned, other>>

\* A generative stage is entered: it subscripts the state and issues its
\* request to the generative service.
StartStage(n) ==
    /\ status = "running"
    /\ phase[n] = "ready"
    /\ attempts' = [attempts EXCEPT ![n] = @ + 1]
    /\ IF FirstMissing(n, state) = None
       THEN /\ calls' = Append(calls, [node |-> n, request |-> Request(n, state)])
            /\ log' = Append(log, <<"start", n>>)
            /\ phase' = [phase EXCEPT ![n] = "calling"]
            /\ UNCHANGED <<status, state, raised, returned, other>>
       ELSE /\ log' = Append(log, <<"start", n>>)
            /\ Raise(n, "KeyError", <<FirstMissing(n, state)>>)
            /\ UNCHANGED calls
    /\ UNCHANGED <<inputs, played, encoder_vars>>

\* The generative service answers: the stage returns its partial update.
LLMReturn(n, text) ==
    /\ status = "running"
    /\ phase[n] = "calling"
    /\ Commit(n, [k \in {Writes(n)} |-> text])
    /\ log' = Append(log, <<"end", n>>)
    /\ UNCHANGED <<inputs, played, attempts, calls, encoder_vars>>

\* Mutant: a transient failure always schedules the task again.
LLMFail_retrying_without_bound(n, type) ==
    /\ status = "running"
    /\ phase[n] = "calling"
    /\ IF type = "TransientExternalError"
       THEN /\ phase' = [phase EXCEPT ![n] = "ready"]
            /\ UNCHANGED <<status, state, raised, returned, other>>
       ELSE Raise(n, type, <<>>)
    /\ UNCHANGED <<inputs, played, attempts, log, calls, encoder_vars>>

\* chain.invoke raises: with no retry policy the task is not run again.
LLMFail(n, type) ==
    /\ status = "running"
    /\ phase[n] = "calling"
    /\ IF type = "TransientExternalError" /\ attempts[n] <= RetryBound
       THEN /\ phase' = [phase EXCEPT ![n] = "ready"]
            /\ UNCHANGED <<status, state, raised, returned, other>>
       ELSE Raise(n, type, <<>>)
    /\ UNCHANGED <<inputs, played, attempts, log, calls, encoder_vars>>

\* No task is scheduled any more: app.invoke returns the state.
Finish ==
    /\ status = "running"
    /\ \A n \in NodeSet : phase[n] \in {"idle", "done"}
    /\ status' = "completed"
    /\ returned' = Append(returned, state)
    /\ UNCHANGED <<inputs, played, other, state, phase, attempts, log, calls, raised,
                   encoder_vars>>


\* tempfile.NamedTemporaryFile(delete=False): a name no file has yet.
fresh_name(fs) == CHOOSE name \in TempNames \ DOMAIN fs : TRUE

\* Mutant: the melody text decides where the generator starts.
generator_states_set_by_the_melody_text ==
    IF rng = <<>> THEN 0..MaxSeed
    ELSE IF state["melody"] = "text_c" THEN {rng_next(rng[1])} ELSE {rng[1]}

\* Mutant: something outside the encoder may have drawn once from the
\* generator since it was seeded.
generator_states_with_a_stray_draw ==
    IF rng = <<>> THEN 0..MaxSeed ELSE {rng[1], rng_next(rng[1])}

\* The states the module-level generator can be in when midi_converter
\* draws: the one it was left in if it was seeded or used, any otherwise.
generator_states == IF rng = <<>> THEN 0..MaxSeed ELSE {rng[1]}

\* midi_converter, entered with the generator in state g: the whole body,
\* up to its return or to the exception that leaves it; piece.write
\* succeeds or raises.
MidiConverter(g) ==
    LET n == "midi_converter" IN
    /\ status = "running"
    /\ phase[n] = "ready"
    /\ g \in generator_states
    /\ attempts' = [attempts EXCEPT ![n] = @ + 1]
    /\ UNCHANGED <<inputs, played, calls>>
    /\ IF FirstMissing(n, state) # None
       THEN \* state["composition"] or state['musician_input'] raises
            /\ log' = Append(log, <<"start", n>>)
            /\ Raise(n, "KeyError", <<FirstMissing(n, state)>>)
            /\ UNCHANGED encoder_vars
       ELSE \E sname \in {select_scale(state["musician_input"], g)},
               g1 \in {rng_after_scale(state["musician_input"], g)} :
            \E melody \in {melody_of(sname, g1)},
               loop \in {create_chord_progression(LoopBeats, rng_after(g1, LoopBeats))} :
            /\ rng' = <<rng_after(g1, LoopBeats + LoopBeats)>>
            /\ rng_at_entry' = rng
            /\ scale_name' = sname
            /\ melody_part' = melody
            /\ IF ~final_chord_found(sname)
               THEN \* chords[...] raises before a file is created
                    /\ harmony_part' = loop
                    /\ log' = Append(log, <<"start", n>>)
                    /\ Raise(n, "KeyError", final_chord_key(sname))
                    /\ UNCHANGED files
               ELSE \E harmony \in {harmony_of(sname, loop)},
                       name \in {fresh_name(files)} :
                    /\ harmony_part' = harmony
                    /\ \/ /\ files' = Merge(files, [f \in {name} |->
                                   Score(state["composition"], melody, harmony)])
                            /\ log' = log \o << <<"start", n>>, <<"end", n>> >>
                            /\ Commit(n, [k \in {Writes(n)} |-> name])
                       \/ /\ files' = Merge(files, [f \in {name} |-> <<>>])
                            /\ log' = Append(log, <<"start", n>>)
                            /\ Raise(n, "WriteError", <<>>)

(* --------------------- playback and a second invocation ---------------- *)

\* Mutant: play_midi removes the file once it has played it.
PlayMidi_removing_the_file ==
    /\ status = "completed"
    /\ returned[1]["midi_file"] \in DOMAIN files
    /\ returned[1]["midi_file"] \notin Range(played)
    /\ played' = Append(played, returned[1]["midi_file"])
    /\ files' = Restrict(files, DOMAIN files \ {returned[1]["midi_file"]})
    /\ UNCHANGED <<inputs, status, state, phase, attempts, log, calls, raised,
                   returned, rng, scale_name, melody_part, harmony_part,
                   rng_at_entry, other>>

\* play_midi(result['midi_file']): the mixer loads the file, plays it to
\* its end and is shut down; the file is left where it is.
PlayMidi ==
    /\ status = "completed"
    /\ returned[1]["midi_file"] \in DOMAIN files
    /\ returned[1]["midi_file"] \notin Range(played)
    /\ played' = Append(played, returned[1]["midi_file"])
    /\ UNCHANGED <<inputs, status, state, phase, attempts, log, calls, raised,
                   returned, encoder_vars, other>>

\* What belongs to one app.invoke: its argument, its channels, its tasks,
\* its outcome and the locals of its midi_converter.
Context ==
    [inputs |-> inputs, status |-> status, state |-> state, phase |-> phase,
     attempts |-> attempts, log |-> log, calls |-> calls, raised |-> raised,
     returned |-> returned, scale_name |-> scale_name,
     melody_part |-> melody_part, harmony_part |-> harmony_part,
     rng_at_entry |-> rng_at_entry]

\* The context of an app.invoke(d) that has not begun.
NewRun(d) ==
    [inputs |-> d, status |-> "new", state |-> EmptyDict,
     phase |-> [n \in NodeSet |-> "idle"], attempts |-> [n \in NodeSet |-> 0],
     log |-> <<>>, calls |-> <<>>, raised |-> <<>>, returned |-> <<>>,
     scale_name |-> <<>>, melody_part |-> <<>>, harmony_part |-> <<>>,
     rng_at_entry |-> <<>>]

\* The process goes from one app.invoke to the other, between two steps:
\* each keeps its own context; the generator, the temporary directory and
\* the mixer are the process's.
Switch ==
    /\ other # <<>>
    /\ other' = <<Context>>
    /\ inputs' = other[1].inputs
    /\ status' = other[1].status
    /\ state' = other[1].state
    /\ phase' = other[1].phase
    /\ attempts' = other[1].attempts
    /\ log' = other[1].log
    /\ calls' = other[1].calls
    /\ raised' = other[1].raised
    /\ returned' = other[1].returned
    /\ scale_name' = other[1].scale_name
    /\ melody_part' = other[1].melody_part
    /\ harmony_part' = other[1].harmony_part
    /\ rng_at_entry' = other[1].rng_at_entry
    /\ UNCHANGED <<rng, files, played>>

\* random.seed(k), called before an app.invoke to fix the seed.
Reseed(k) ==
    /\ status = "new"
    /\ rng # <<k>>
    /\ rng' = <<k>>
    /\ UNCHANGED <<inputs, status, state, phase, attempts, log, calls, raised,
                   returned, scale_name, melody_part, harmony_part,
                   rng_at_entry, files, played, other>>

(* --------------------------- the specification ------------------------- *)

Next ==
    \/ Invoke
    \/ \E n \in GenerativeNodes : StartStage(n)
    \/ \E n \in GenerativeNodes, text \in LLMResponses : LLMReturn(n, text)
    \/ \E n \in GenerativeNodes, type \in ExternalErrors : LLMFail(n, type)
    \/ \E g \in 0..MaxSeed : MidiConverter(g)
    \/ Finish

Spec == Init /\ [][Next]_vars

(* ---------------- two invocations in one process, seeded --------------- *)

\* The seeds the caller fixes: 0..MaxFixedSeed.
MaxFixedSeed == 1

\* The arguments of the two invocations: complete, with or without a
\* keyword for the scale.
TwoRunInputs ==
    {d \in InputDicts :
        /\ DOMAIN d = {"musician_input", "style"}
        /\ d["musician_input"] \in
              {"Create a happy piano piece in C major", "Create a happy piece"}}

\* The generative service's answers to a request made for musician_input t:
\* no text answers two different t, so that an answer shows which
\* invocation it was given to.
RepliesTo(t) ==
    IF t = "Create a happy piece" THEN {"text_b", "text_c"} ELSE {"text_a"}

InitTwoRuns ==
    /\ inputs \in TwoRunInputs
    /\ other \in {<<NewRun(d)>> : d \in TwoRunInputs}
    /\ rng \in {<<k>> : k \in 0..MaxFixedSeed}
    /\ status = "new"
    /\ state = EmptyDict
    /\ phase = [n \in NodeSet |-> "idle"]
    /\ attempts = [n \in NodeSet |-> 0]
    /\ log = <<>>
    /\ calls = <<>>
    /\ raised = <<>>
    /\ returned = <<>>
    /\ scale_name = <<>>
    /\ melody_part = <<>>
    /\ harmony_part = <<>>
    /\ rng_at_entry = <<>>
    /\ files = EmptyDict
    /\ played = <<>>

NextTwoRuns ==
    \/ Invoke
    \/ \E n \in GenerativeNodes : StartStage(n)
    \/ \E n \in GenerativeNodes, text \in RepliesTo(inputs["musician_input"]) :
          LLMReturn(n, text)
    \/ \E n \in GenerativeNodes, type \in ExternalErrors : LLMFail(n, type)
    \/ \E g \in 0..MaxSeed : MidiConverter(g)
    \/ Finish
    \/ PlayMidi
    \/ Switch
    \/ \E k \in 0..MaxFixedSeed : Reseed(k)

SpecTwoRuns == InitTwoRuns /\ [][NextTwoRuns]_vars

(* ------------------------------- claims -------------------------------- *)

\* The starts and ends of a run in which every stage runs once, in order.
CanonicalLog ==
    << <<"start", "melody_generator">>, <<"end", "melody_generator">>,
       <<"start", "harmony_creator">>,  <<"end", "harmony_creator">>,
       <<"start", "rhythm_analyzer">>,  <<"end", "rhythm_analyzer">>,
       <<"start", "style_adapter">>,    <<"end", "style_adapter">>,
       <<"start", "midi_converter">>,   <<"end", "midi_converter">> >>

Executing == {n \in NodeSet : phase[n] = "calling"}

Scheduled == {n \in NodeSet : phase[n] \in {"ready", "calling"}}

\* C1: the stages run in the fixed order melody_generator, harmony_creator,
\* rhythm_analyzer, style_adapter, midi_converter: the starts and ends so far
\* are always a prefix of that order with each start directly followed by
\* its own end (so no stage is skipped, repeated or reordered, and
\* midi_converter starts only after the four generative stages ended), at
\* most one stage is scheduled or executing at any moment, and a completed
\* run went through all five.
C1_FixedStageOrder ==
    /\ IsPrefix(log, CanonicalLog)
    /\ Cardinality(Scheduled) <= 1
    /\ Cardinality(Executing) <= 1
    /\ \A n \in NodeSet : attempts[n] <= 1
    /\ status = "completed" => log = CanonicalLog

C1_Witness ==
    /\ status = "completed"
    /\ log = CanonicalLog

\* The caller left out a key that some stage reads.
LacksRequiredInput ==
    \/ "musician_input" \notin DOMAIN inputs
    \/ "style" \notin DOMAIN inputs

\* C2 (as claimed): a run whose initial state lacks musician_input or style
\* is rejected with MissingInputError before melody_generator starts and
\* before any external call is issued.
C2_PreflightRejection ==
    LacksRequiredInput =>
        /\ log = <<>>
        /\ calls = <<>>
        /\ status # "completed"
        /\ \A i \in 1..Len(raised) : raised[i].type = "MissingInputError"

\* C3 (as claimed): a run given musician_input and style but no scale never
\* fails on a missing key inside a stage body once an external call has
\* been issued.
C3_NoKeyFailureAfterExternalCall ==
    ( /\ "musician_input" \in DOMAIN inputs
      /\ "style" \in DOMAIN inputs
      /\ "scale" \notin DOMAIN inputs ) =>
        ~( /\ status = "failed"
           /\ calls # <<>>
           /\ raised[1].type = "KeyError" )

\* C4: a run has at most one outcome, an exception or a returned state,
\* never both; a failed run raised exactly one error, which names the task
\* it arose in, and returned nothing to the caller, whatever stage outputs
\* its state had gathered; a completed run returned exactly one state and
\* raised nothing.
C4_OneTerminalOutcome ==
    /\ Len(raised) + Len(returned) <= 1
    /\ status = "failed" <=> Len(raised) = 1
    /\ status = "completed" <=> Len(returned) = 1
    /\ status = "failed" => (returned = <<>> /\ raised[1].task \in NodeSet)
    /\ status \in {"new", "running"} => (raised = <<>> /\ returned = <<>>)

C4_Witness ==
    /\ status = "failed"
    /\ {"melody", "harmony", "rhythm"} \subseteq DOMAIN state
    /\ Len(raised) = 1
    /\ returned = <<>>

\* C5: once a stage has raised an error, no further stage is started or
\* ended and no further external call is issued.
C5_NothingRunsAfterAnError ==
    [][raised # <<>> => (log' = log /\ calls' = calls /\ attempts' = attempts)]_vars

C5_Witness ==
    /\ raised # <<>>
    /\ raised[1].task = "harmony_creator"
    /\ calls # <<>>
    /\ phase["rhythm_analyzer"] = "idle"

\* C6: no stage body is entered more than 1 + RetryBound times (RetryBound
\* is 0: the graph is compiled without a retry policy); a stage whose call
\* failed permanently was entered once; and a failed call whose retries are
\* used up has ended the run.
C6_RetryPolicy ==
    /\ \A n \in NodeSet : attempts[n] <= 1 + RetryBound
    /\ \A n \in NodeSet :
          Cardinality({i \in 1..Len(calls) : calls[i].node = n}) <= 1 + RetryBound
    /\ \A i \in 1..Len(raised) :
          /\ raised[i].type = "PermanentExternalError" => attempts[raised[i].task] = 1
          /\ raised[i].type = "TransientExternalError" =>
                attempts[raised[i].task] = 1 + RetryBound
          /\ status = "failed"

C6_Witness ==
    /\ status = "failed"
    /\ raised[1].type = "TransientExternalError"
    /\ attempts[raised[1].task] = 1

\* The stage that owns each generated key.
OwnerOf(k) ==
    CASE k = "melody"      -> "melody_generator"
      [] k = "harmony"     -> "harmony_creator"
      [] k = "rhythm"      -> "rhythm_analyzer"
      [] k = "composition" -> "style_adapter"
      [] k = "midi_file"   -> "midi_converter"

GeneratedKeys == <<"melody", "harmony", "rhythm", "composition", "midi_file">>

\* C7: within a run every step leaves each key of the state with its value
\* (the caller's musician_input and style included); when a stage ends, the
\* state gains exactly the one key that stage owns; and the generated keys
\* appear in the order melody, harmony, rhythm, composition, midi_file.
C7_AppendOnlyState ==
    [][ status # "new" =>
          /\ \A k \in DOMAIN state : k \in DOMAIN state' /\ state'[k] = state[k]
          /\ \A k \in DOMAIN state' \ DOMAIN state :
                /\ k \in Range(GeneratedKeys)
                /\ DOMAIN state' = DOMAIN state \cup {k}
                /\ log' # log
                /\ log'[Len(log')] = <<"end", OwnerOf(k)>>
          /\ (log' # log /\ log'[Len(log')][1] = "end") =>
                \E k \in DOMAIN state' \ DOMAIN state : OwnerOf(k) = log'[Len(log')][2]
          /\ \A i \in 1..Len(GeneratedKeys) :
                GeneratedKeys[i] \in DOMAIN state' =>
                    \A j \in 1..i : GeneratedKeys[j] \in DOMAIN state'
          /\ \A k \in DOMAIN inputs \cap MusicState : state'[k] = inputs[k]
      ]_vars

C7_Witness ==
    /\ status = "completed"
    /\ DOMAIN state = MusicState
    /\ state["musician_input"] = inputs["musician_input"]
    /\ state["style"] = inputs["style"]
    /\ state["melody"] # state["harmony"]

\* C8: the state a completed run returns holds melody, harmony, rhythm,
\* composition and midi_file.
C8_CompletedStateIsFull ==
    status = "completed" =>
        {"melody", "harmony", "rhythm", "composition", "midi_file"}
            \subseteq DOMAIN returned[1]

C8_Witness ==
    /\ status = "completed"
    /\ returned[1]["midi_file"] \in DOMAIN files
    /\ returned[1]["composition"] = "text_b"

\* The target duration: the caller's duration, 8 when none is given.
TargetDuration == IF "duration" \in DOMAIN inputs THEN inputs["duration"] ELSE 8

\* C9 (as claimed): once the encoder has built its two tracks, final note
\* and final chord included, the melody Track and the harmony Track each
\* hold exactly TargetDuration events of 1 beat.
C9_TracksFillTargetDuration ==
    (scale_name # <<>> /\ final_chord_found(scale_name)) =>
        /\ Len(melody_part) = TargetDuration
        /\ Len(harmony_part) = TargetDuration
        /\ \A i \in 1..Len(melody_part) : melody_part[i].quarterLength = 1
        /\ \A i \in 1..Len(harmony_part) : harmony_part[i].quarterLength = 1

\* C10: whatever scale was selected and whatever the generator drew, the
\* last note of the encoder's melody, the eighth, has the first pitch class
\* of the selected scale.
C10_MelodyEndsOnRoot ==
    scale_name # <<>> =>
        /\ Len(melody_part) = LoopBeats + 1
        /\ melody_part[Len(melody_part)].pitch[1] = scales(scale_name)[1]

C10_Witness ==
    /\ scale_name = <<"C", "whole", "tone">>
    /\ melody_part[LoopBeats].pitch[1] = "A#"
    /\ melody_part[LoopBeats + 1].pitch[1] = "C"

\* The pitch classes of a scale, as a set.
PitchClassesOf(name) == Range(scales(name))

\* C11: every note of the encoder's melody, the final note included, is
\* built from a pitch class of the selected scale's pitch sequence and lies
\* in octave 4; no note has a pitch class the selected scale lacks.
C11_MelodyStaysInScale ==
    scale_name # <<>> =>
        \A i \in 1..Len(melody_part) :
            /\ melody_part[i].pitch[1] \in PitchClassesOf(scale_name)
            /\ melody_part[i].pitch[2] = 4

C11_Witness ==
    /\ scale_name = <<"C", "locrian">>
    /\ \E i \in 1..LoopBeats : melody_part[i].pitch[1] = "Db"
    /\ \E i \in 1..LoopBeats : melody_part[i].pitch[1] = "Gb"

\* The configured tempo: the caller's tempo, 60 when none is given.
TargetTempo == IF "tempo" \in DOMAIN inputs THEN inputs["tempo"] ELSE 60

\* The tempo markings of a written score.
TempoMarksOf(score) ==
    {score[i].number : i \in {j \in 1..Len(score) : score[j].kind = "MetronomeMark"}}

\* C12 (as claimed): every score the encoder has serialized carries one
\* tempo marking, whose number is the tempo configured in the initial
\* state, 60 when the initial state gives none.
C12_TempoFollowsInitialState ==
    \A f \in DOMAIN files :
        files[f] # <<>> => TempoMarksOf(files[f]) = {TargetTempo}

\* The texts of the model that hold the word minor, and those that hold the
\* word major, in any case of letters.
MentionsMinor == {"A sad waltz in C MINOR", "from Minor to major"}

MentionsMajor == {"Create a happy piano piece in C major", "from Minor to major"}

\* C13: whatever the generator's state, midi_converter selects C minor when
\* the lower-cased musician_input holds 'minor' (also when it holds 'major'
\* as well), C major when it holds 'major' and not 'minor', and otherwise an
\* entry of the scale table.
C13_ScaleSelection ==
    scale_name # <<>> =>
        /\ state["musician_input"] \in MentionsMinor =>
              scale_name = <<"C", "minor">>
        /\ state["musician_input"] \in MentionsMajor \ MentionsMinor =>
              scale_name = <<"C", "major">>
        /\ scale_name \in Range(scale_keys)

C13_Witness ==
    /\ scale_name = <<"C", "minor">>
    /\ state["musician_input"] = "from Minor to major"
    /\ rng # <<>>

\* The words of the scale name the caller gave.
RequestedScale ==
    CASE inputs["scale"] = "C dorian" -> <<"C", "dorian">>

\* C14 (as claimed): when the initial state supplies a scale, the encoder
\* uses that scale, not the keyword heuristic: the selected scale is the
\* supplied one, the melody ends on its first pitch class, and the final
\* chord is looked up under its name.
C14_SuppliedScaleIsUsed ==
    ("scale" \in DOMAIN inputs /\ scale_name # <<>>) =>
        /\ scale_name = RequestedScale
        /\ melody_part[Len(melody_part)].pitch[1] = scales(RequestedScale)[1]
        /\ \A i \in 1..Len(melody_part) :
              melody_part[i].pitch[1] \in Range(scales(RequestedScale))

\* C16 (as claimed): when the chord table has no entry under the selected
\* scale's name, the run ends with an error classified ChordLookupError,
\* not with a bare runtime fault.
C16_ChordLookupIsClassified ==
    (scale_name # <<>> /\ ~final_chord_found(scale_name)) =>
        /\ status = "failed"
        /\ Len(raised) = 1
        /\ raised[1].task = "midi_converter"
        /\ raised[1].type = "ChordLookupError"

\* C17 (as claimed): a file exists only once the four generative stages
\* have ended and the encoder has built its score, the final chord lookup
\* included; and a run that failed, in whatever step, left no file.
C17_NoFileUnlessSuccess ==
    /\ DOMAIN files # {} =>
          /\ {"melody", "harmony", "rhythm", "composition"} \subseteq DOMAIN state
          /\ scale_name # <<>>
          /\ final_chord_found(scale_name)
    /\ status = "failed" => DOMAIN files = {}

\* C20 (as claimed): every error that ends a run names the stage it arose
\* in and holds a snapshot of the state at the time of the failure.
C20_ErrorsCarryStageAndSnapshot ==
    \A i \in 1..Len(raised) :
        /\ raised[i].task \in NodeSet
        /\ "snapshot" \in DOMAIN raised[i]
        /\ raised[i].snapshot = state

\* The two invocations entered midi_converter with the generator in the
\* same state and with the same musician_input and composition.
SameSeedAndInputs ==
    /\ other # <<>>
    /\ rng_at_entry # <<>>
    /\ other[1].rng_at_entry = rng_at_entry
    /\ other[1].state["musician_input"] = state["musician_input"]
    /\ other[1].state["composition"] = state["composition"]

C18_FileOutlivesTheRun ==
    [][ /\ \A f \in DOMAIN files : f \in DOMAIN files' /\ files'[f] = files[f]
        /\ "midi_file" \in DOMAIN state' =>
              /\ state'["midi_file"] \in DOMAIN files'
              /\ files'[state'["midi_file"]] # <<>>
      ]_vars

C18_Witness ==
    /\ status = "completed"
    /\ Len(played) = 2
    /\ played[2] = returned[1]["midi_file"]
    /\ \A i \in 1..Len(played) :
          played[i] \in DOMAIN files /\ files[played[i]] # <<>>

\* The values a context holds all come from its own argument: its state
\* has the caller's musician_input and style, every generated text is an
\* answer of the service to this invocation, every request was built from this
\* state, and what it returned is its own state.
OwnValuesOnly(c) ==
    /\ \A k \in DOMAIN c.state \cap DOMAIN c.inputs : c.state[k] = c.inputs[k]
    /\ \A k \in DOMAIN c.state \cap {"melody", "harmony", "rhythm", "composition"} :
          c.state[k] \in RepliesTo(c.inputs["musician_input"])
    /\ \A i \in 1..Len(c.calls) :
          \A k \in DOMAIN c.calls[i].request :
              c.calls[i].request[k] =
                  IF k = "input" THEN c.inputs["musician_input"] ELSE c.state[k]
    /\ \A i \in 1..Len(c.returned) : c.returned[i] = c.state

\* C19: with two invocations interleaved, a step either belongs to the
\* running invocation and leaves the whole context of the suspended one as
\* it was, or only passes from one invocation to the other with both
\* contexts kept; and each invocation's state, requests and result hold
\* only values that come from its own argument.
C19_RunsKeepTheirOwnState ==
    [][ other # <<>> =>
          /\ \/ other' = other
             \/ other' = <<Context>> /\ Context' = other[1]
          /\ OwnValuesOnly(Context')
          /\ OwnValuesOnly(other'[1])
      ]_vars

C19_Witness ==
    /\ other # <<>>
    /\ phase["harmony_creator"] = "calling"
    /\ other[1].phase["style_adapter"] = "calling"
    /\ inputs["musician_input"] # other[1].inputs["musician_input"]
    /\ state["melody"] # other[1].state["melody"]
    /\ calls[2].request["melody"] = state["melody"]
    /\ other[1].calls[2].request["melody"] = other[1].state["melody"]

\* The final chord lookup of the run raised: a KeyError in midi_converter on
\* key k, before the final chord was appended and before any file of this
\* run was created.
FinalLookupFailedOn(k) ==
    /\ status = "failed"
    /\ raised[1].task = "midi_converter"
    /\ raised[1].type = "KeyError"
    /\ raised[1].key = k
    /\ Len(harmony_part) = LoopBeats

\* The scales the claim names: the five modal scales, the whole-tone scale
\* and the symmetric-diminished scale.
ModalWholeToneAndDiminished ==
    { <<"C", "dorian">>, <<"C", "phrygian">>, <<"C", "lydian">>,
      <<"C", "mixolydian">>, <<"C", "locrian">>, <<"C", "whole", "tone">>,
      <<"C", "diminished">> }

\* The scales whose first two words are not the name of a chord.
ScalesWithoutChord ==
    { <<"C", "harmonic", "minor">>, <<"C", "melodic", "minor">>,
      <<"C", "dorian">>, <<"C", "phrygian">>, <<"C", "lydian">>,
      <<"C", "mixolydian">>, <<"C", "locrian">>, <<"C", "whole", "tone">> }

\* C21 (as claimed): the final chord lookup fails for every modal scale, for
\* the whole-tone scale and for the symmetric-diminished scale C diminished.
C21_LookupFailsForNamedScales ==
    scale_name \in ModalWholeToneAndDiminished =>
        FinalLookupFailedOn(<<scale_name[1], scale_name[2]>>)

\* C21 (amended): the final chord lookup fails, on the first two words of the
\* scale's name, for C harmonic minor, C melodic minor, the five modal
\* scales and the whole-tone scale; for C diminished it succeeds, the chord
\* table having an entry of that name, and the final chord is that entry.
C21_LookupFailsForScalesWithoutChord ==
    /\ scale_name \in ScalesWithoutChord =>
          FinalLookupFailedOn(<<scale_name[1], scale_name[2]>>)
    /\ scale_name = <<"C", "diminished">> =>
          /\ raised = <<>> \/ raised[1].type # "KeyError"
          /\ Len(harmony_part) = LoopBeats + 1
          /\ harmony_part[LoopBeats + 1].pitches =
                << <<"C", 4>>, <<"Eb", 4>>, <<"Gb", 4>> >>

C21_Witness ==
    /\ scale_name = <<"C", "harmonic", "minor">>
    /\ FinalLookupFailedOn(<<"C", "harmonic">>)
    /\ Len(calls) = 4

\* The scales whose name is also the name of a chord.
ScalesWithChord == { <<"C", "major">>, <<"C", "minor">>, <<"C", "diminished">> }

\* C22: once the encoder has selected a scale, the final chord was appended
\* exactly when the scale is C major, C minor or C diminished, and otherwise
\* the lookup raised on the first two words of the scale's name; a run whose
\* musician_input holds minor or major did not fail in that lookup; and a
\* run that did fail there had no keyword, had issued all four generative
\* calls and had gathered their four outputs.
C22_LookupSucceedsForThreeScales ==
    scale_name # <<>> =>
        /\ scale_name \in ScalesWithChord <=> Len(harmony_part) = LoopBeats + 1
        /\ scale_name \notin ScalesWithChord <=>
              FinalLookupFailedOn(<<scale_name[1], scale_name[2]>>)
        /\ state["musician_input"] \in MentionsMinor \cup MentionsMajor =>
              scale_name \in ScalesWithChord
        /\ scale_name \notin ScalesWithChord =>
              /\ Len(calls) = 4
              /\ {calls[i].node : i \in 1..4} = GenerativeNodes
              /\ {"melody", "harmony", "rhythm", "composition"} \subseteq DOMAIN state
              /\ "midi_file" \notin DOMAIN state

C22_Witness ==
    /\ scale_name = <<"C", "mixolydian">>
    /\ state["musician_input"] = "Create a happy piece"
    /\ FinalLookupFailedOn(<<"C", "mixolydian">>)
    /\ Len(calls) = 4

\* The pitch lists of the nine chord-table entries.
ChordTableEntries == {chords(chord_keys[i]) : i \in 1..Len(chord_keys)}

\* What the encoder selects and draws, for every musician_input and every
\* state of the generator: the scale and the chords of the loop.
EncoderDraws ==
    { << select_scale(t, g),
         create_chord_progression(LoopBeats,
             rng_after(rng_after_scale(t, g), LoopBeats)) >> :
        t \in MusicianInputs, g \in 0..MaxSeed }

\* For every scale and every beat of the loop, each of the nine entries is
\* drawn for some state of the generator.
EveryChordAtEveryBeat ==
    \A i \in 1..Len(scale_keys) : \A b \in 1..LoopBeats :
        {d[2][b].pitches : d \in {e \in EncoderDraws : e[1] = scale_keys[i]}}
            = ChordTableEntries

\* C23: each chord of the harmony before the final beat is an entry of the
\* chord table, and for every scale and every beat before the final one each
\* of the nine entries can be the chord of that beat.
C23_HarmonyFromWholeChordTable ==
    /\ \A b \in 1..Len(harmony_part) :
          b <= LoopBeats => harmony_part[b].pitches \in ChordTableEntries
    /\ EveryChordAtEveryBeat

C23_Witness ==
    /\ scale_name = <<"C", "major">>
    /\ Len(harmony_part) = LoopBeats + 1
    /\ harmony_part[1].pitches = chords(<<"C", "fully", "diminished", "7th">>)
    /\ harmony_part[LoopBeats].pitches # harmony_part[1].pitches
    /\ harmony_part[LoopBeats + 1].pitches = chords(<<"C", "major">>)

\* The elements of a score that are of kind k.
ElementsOf(score, k) == {i \in 1..Len(score) : score[i].kind = k}

\* The Parts of a score that hold notes only, and those that hold chords only.
MelodyTracksOf(score) ==
    {i \in ElementsOf(score, "Part") :
        \A j \in 1..Len(score[i].events) : "pitch" \in DOMAIN score[i].events[j]}

HarmonyTracksOf(score) ==
    {i \in ElementsOf(score, "Part") :
        \A j \in 1..Len(score[i].events) : "pitches" \in DOMAIN score[i].events[j]}

\* C24: the score in the file a run returned has four elements: one Part of
\* notes, the run's melody; one Part of chords, the run's harmony; one tempo
\* marking; and one text annotation, whose text is the composition in the
\* run's state.
C24_ScoreContents ==
    "midi_file" \in DOMAIN state =>
        \E score \in {files[state["midi_file"]]} :
            /\ Len(score) = 4
            /\ Cardinality(ElementsOf(score, "Part")) = 2
            /\ Cardinality(MelodyTracksOf(score)) = 1
            /\ Cardinality(HarmonyTracksOf(score)) = 1
            /\ \A i \in MelodyTracksOf(score) : score[i].events = melody_part
            /\ \A i \in HarmonyTracksOf(score) : score[i].events = harmony_part
            /\ Cardinality(ElementsOf(score, "MetronomeMark")) = 1
            /\ Cardinality(ElementsOf(score, "TextExpression")) = 1
            /\ \A i \in ElementsOf(score, "TextExpression") :
                  score[i].content = state["composition"]

C24_Witness ==
    /\ status = "completed"
    /\ state["composition"] = "text_b"
    /\ state["melody"] = "text_a"
    /\ files[state["midi_file"]][1].content = "text_b"
    /\ Len(files[state["midi_file"]][2].events) = LoopBeats + 1

\* The two invocations entered midi_converter with the same musician_input
\* and with the generator in the same state, so that every draw of the one
\* is the draw of the other.
SameInputAndDraws ==
    /\ other # <<>>
    /\ rng_at_entry # <<>>
    /\ other[1].rng_at_entry = rng_at_entry
    /\ other[1].state["musician_input"] = state["musician_input"]

\* C25: two runs of the encoder on the same musician_input that make the
\* same draws select the same scale and build the same melody and the same
\* harmony, whatever melody, harmony, rhythm and composition texts the two
\* states hold.
C25_TextsDoNotReachTheTracks ==
    SameInputAndDraws =>
        /\ scale_name = other[1].scale_name
        /\ melody_part = other[1].melody_part
        /\ harmony_part = other[1].harmony_part

C25_Witness ==
    /\ SameInputAndDraws
    /\ state["melody"] # other[1].state["melody"]
    /\ state["harmony"] # other[1].state["harmony"]
    /\ state["rhythm"] # other[1].state["rhythm"]
    /\ Len(melody_part) = LoopBeats + 1
    /\ melody_part = other[1].melody_part
    /\ harmony_part = other[1].harmony_part

\* The keys the claim says each generative stage reads.
KeysReadBy(n) ==
    CASE n = "melody_generator" -> {"musician_input"}
      [] n = "harmony_creator"  -> {"melody"}
      [] n = "rhythm_analyzer"  -> {"melody", "harmony"}
      [] n = "style_adapter"    -> {"style", "melody", "harmony", "rhythm"}

\* C26 (as claimed): a generative stage that has started found every key it
\* reads in the state (no step removes a key, and a stage that lacks one adds
\* none, so a key missing now was missing at the start).
C26_ReadKeysArePresent ==
    \A i \in 1..Len(log) :
        (log[i][1] = "start" /\ log[i][2] \in GenerativeNodes) =>
            KeysReadBy(log[i][2]) \subseteq DOMAIN state

\* The requests issued so far by stage n.
RequestsOf(n) == {calls[i].request : i \in {j \in 1..Len(calls) : calls[j].node = n}}

\* C27: every request holds the values of this run and nothing else:
\* harmony_creator's holds the melody in the state, rhythm_analyzer's the
\* melody and the harmony, style_adapter's the melody, the harmony, the
\* rhythm and the style the caller gave.
C27_RequestsFromCurrentState ==
    /\ \A r \in RequestsOf("harmony_creator") :
          /\ DOMAIN r = {"melody"}
          /\ r["melody"] = state["melody"]
    /\ \A r \in RequestsOf("rhythm_analyzer") :
          /\ DOMAIN r = {"melody", "harmony"}
          /\ r["melody"] = state["melody"]
          /\ r["harmony"] = state["harmony"]
    /\ \A r \in RequestsOf("style_adapter") :
          /\ DOMAIN r = {"style", "melody", "harmony", "rhythm"}
          /\ r["melody"] = state["melody"]
          /\ r["harmony"] = state["harmony"]
          /\ r["rhythm"] = state["rhythm"]
          /\ r["style"] = inputs["style"]

C27_Witness ==
    /\ Len(calls) = 4
    /\ calls[4].node = "style_adapter"
    /\ calls[4].request["melody"] = "text_a"
    /\ calls[4].request["harmony"] = "text_b"
    /\ calls[4].request["rhythm"] = "text_a"
    /\ calls[3].request["harmony"] = "text_b"
    /\ calls[2].request["melody"] = "text_a"

\* The stages that ran: those whose body was entered.
StagesThatRan == {log[i][2] : i \in {j \in 1..Len(log) : log[j][1] = "start"}}

\* The external calls stage n issued.
CallsOf(n) == {i \in 1..Len(calls) : calls[i].node = n}

\* C28 (as claimed): a run takes a bounded number of steps, every step being
\* the start or the end of a stage once the run is invoked; each of the five
\* stages is entered at most once; at most four external calls are issued,
\* and exactly one by each generative stage that ran.
C28_BoundedRunOneCallPerStage ==
    /\ Len(log) <= 2 * Len(Nodes)
    /\ \A n \in NodeSet : attempts[n] <= 1
    /\ Len(calls) <= 4
    /\ CallsOf("midi_converter") = {}
    /\ \A n \in StagesThatRan \cap GenerativeNodes : Cardinality(CallsOf(n)) = 1

\* The names a pitch class can have in the tables.
PitchClassNames ==
    {"C", "Db", "D", "Eb", "E", "F", "F#", "Gb", "G", "G#", "Ab", "A", "A#", "Bb", "B"}

\* The entries of the two tables, each the pair of its key and its value.
ScaleTableEntries == {<<scale_keys[i], scales(scale_keys[i])>> : i \in 1..Len(scale_keys)}

ChordTableItems == {<<chord_keys[i], chords(chord_keys[i])>> : i \in 1..Len(chord_keys)}

\* The scale table has 11 entries under 11 different names, each a sequence
\* of 6 to 8 different pitch classes; the chord table has 9 entries under 9
\* different names, each a list of pitches of octave 4.
TablesAsWritten ==
    /\ Cardinality(ScaleTableEntries) = 11
    /\ Cardinality(Range(scale_keys)) = 11
    /\ \A e \in ScaleTableEntries :
          /\ Len(e[2]) \in 6..8
          /\ Cardinality(Range(e[2])) = Len(e[2])
          /\ Range(e[2]) \subseteq PitchClassNames
    /\ Cardinality(ChordTableItems) = 9
    /\ Cardinality(Range(chord_keys)) = 9
    /\ \A e \in ChordTableItems :
          \A i \in 1..Len(e[2]) : e[2][i][1] \in PitchClassNames /\ e[2][i][2] = 4

=============================================================================
